---- MODULE Spec2Model ----
(***************************************************************************)
(* A model of the semantic search subsystem of mcp-census:                 *)
(*   - catalog ingestion   (datasets_db.fetch_census_dataset_documents)    *)
(*   - the persistent FAISS index: build, save, load, search               *)
(*     (datasets_db.create_vectordb / save_vectordb /                      *)
(*      load_or_create_vectordb / search_census_datasets, __main__)        *)
(*   - the per-request variable index (census_api.fetch_dataset_variables, *)
(*     quick_search.quick_faiss_search)                                    *)
(*   - the place-name lookup (census_api.lookup_dataset_fips)              *)
(* Several operating-system processes run the module against one durable   *)
(* storage directory (PERSIST_DIR) and one upstream Census API.            *)
(***************************************************************************)
EXTENDS Integers, Sequences, FiniteSets, TLC

VARIABLES
    upstream,         \* the "dataset" list data.json currently serves
    dir,              \* os.path.exists(PERSIST_DIR)
    faiss_file,       \* PERSIST_DIR/index.faiss
    pkl_file,         \* PERSIST_DIR/index.pkl
    pc,               \* per process: where it is in the module's code
    kind,             \* per process: "server" (module imported) or "script" (__main__)
    phase,            \* per process: "init" (line 123) or "rebuild" (lines 161-167)
    path,             \* per process: branch taken at line 105: "none", "load", "build"
    documents,        \* per process: local `documents`
    local_db,         \* per process: local `vectordb` under construction / being loaded
    vectordb,         \* per process: module global `vectordb`
    default_vectordb, \* per process: default argument bound at line 132
    err,              \* per process: the exception that ended it ("none" if none)
    hist,             \* per process: counts of fetches, embeddings, loads, storage writes
    out,              \* the last search_census_datasets call and its result
    vout,             \* the last fetch_dataset_variables call and its result
    fout,             \* the last lookup_dataset_fips call and its result
    seen              \* a search response its caller has kept

vars == <<upstream, dir, faiss_file, pkl_file, pc, kind, phase, path, documents,
          local_db, vectordb, default_vectordb, err, hist, out, vout,
          fout, seen>>

(***************************************************************************)
(* Bounds of the model.                                                    *)
(***************************************************************************)
\* Longest catalog drawn when ingestion is checked on arbitrary descriptors.
MaxCatalog == 2
\* Largest k a search request is made with in the lifecycle specification.
MaxK == 2
\* Number of variables in the largest variable catalog.
MaxVars == 12
\* Number of filler entries of the large dataset catalog (beyond fetch_k).
BigExtra == 2
\* Most rows below the header in a FIPS table.
MaxRows == 2

Procs == {"p1", "p2"}

(***************************************************************************)
(* Python values.                                                          *)
(***************************************************************************)
\* Optional[...]: None is the empty tuple, a value v is <<v>>.
None == <<>>
Some(v) == <<v>>

\* dict.get(k, default)
Get(d, k, default) == IF k \in DOMAIN d THEN d[k] ELSE default

RECURSIVE Join(_, _)
\* sep.join(parts)
Join(sep, parts) ==
    IF parts = <<>> THEN ""
    ELSE IF Len(parts) = 1 THEN parts[1]
    ELSE parts[1] \o sep \o Join(sep, Tail(parts))

\* The result of a call: an exception name or "none", and the value returned.
Ok(v) == [err |-> "none", val |-> v]
Raise(e) == [err |-> e, val |-> <<>>]

(***************************************************************************)
(* Dataset descriptors of data.json.  A descriptor is a dict; a key that   *)
(* upstream leaves out is not in its DOMAIN.                               *)
(***************************************************************************)
UrlDecPl == "https://api.census.gov/data/2020/dec/pl"
UrlAcs == "https://api.census.gov/data/2021/acs/acs1"
UrlEits == "https://api.census.gov/data/timeseries/eits"

DDecPl ==
    [c_vintage |-> 2020, title |-> "Decennial PL",
     description |-> "Redistricting data",
     distribution |-> <<[accessURL |-> UrlDecPl]>>,
     c_dataset |-> <<"dec", "pl">>]

DAcs ==
    [c_vintage |-> 2021, title |-> "ACS 1-Year",
     description |-> "Redistricting population estimates",
     distribution |-> <<[accessURL |-> UrlAcs]>>,
     c_dataset |-> <<"acs", "acs1">>]

DAcs2020 ==
    [c_vintage |-> 2020, title |-> "ACS 1-Year",
     description |-> "Housing costs",
     distribution |-> <<[accessURL |-> UrlAcs]>>,
     c_dataset |-> <<"acs", "acs1">>]

\* a timeseries dataset: data.json gives it no c_vintage
DEits ==
    [title |-> "Economic Indicators", description |-> "Housing costs",
     distribution |-> <<[accessURL |-> UrlEits]>>,
     c_dataset |-> <<"timeseries", "eits">>]

\* a record without c_dataset: its key is the empty string
DNoKey ==
    [c_vintage |-> 2021, title |-> "Decennial PL",
     description |-> "Housing costs",
     distribution |-> <<[accessURL |-> UrlAcs]>>]

(***************************************************************************)
(* Catalog ingestion: fetch_census_dataset_documents.                      *)
(***************************************************************************)
\* The f-string of line 53: the text of each slot, in the template's order.
PageContent(vintage, key, api_base_url, title, description) ==
    [Vintage |-> vintage, Dataset |-> key, APIbaseURL |-> api_base_url,
     Title |-> title, Description |-> description]

\* f"{vintage}" of an int, or of the placeholder string
FormatVintage(dataset) ==
    IF "c_vintage" \in DOMAIN dataset THEN ToString(dataset.c_vintage)
    ELSE "Unknown Vintage"

\* Lines 38-56, one round of the loop: the Document of one descriptor.
\* dataset.get("distribution", [])[0] raises IndexError on an empty list.
MakeDocument(dataset) ==
    LET distribution == Get(dataset, "distribution", <<>>) IN
    IF Len(distribution) = 0 THEN Raise("IndexError")
    ELSE
      LET vintage == FormatVintage(dataset)
          title == Get(dataset, "title", "No Title")
          description == Get(dataset, "description", "No Description")
          api_base_url == Get(distribution[1], "accessURL", "No API Base URL")
          key == Join("/", Get(dataset, "c_dataset", <<>>))
          metadata == [f \in DOMAIN dataset \cup {"apiBaseURL", "key"} |->
                         IF f = "apiBaseURL" THEN api_base_url
                         ELSE IF f = "key" THEN key
                         ELSE dataset[f]]
      IN Ok([page_content |->
                 PageContent(vintage, key, api_base_url, title, description),
             metadata |-> metadata])

RECURSIVE MapDocuments(_)
\* The loop of lines 36-56: the first exception ends it.
MapDocuments(data) ==
    IF data = <<>> THEN Ok(<<>>)
    ELSE LET d == MakeDocument(Head(data)) IN
         IF d.err # "none" THEN d
         ELSE LET rest == MapDocuments(Tail(data)) IN
              IF rest.err # "none" THEN rest
              ELSE Ok(<<d.val>> \o rest.val)

\* Lines 29-58.  status_ok: whether httpx.get returned and raise_for_status passed.
fetch_census_dataset_documents(status_ok, data) ==
    IF ~status_ok THEN Raise("HTTPStatusError") ELSE MapDocuments(data)

(***************************************************************************)
(* Variable definitions of variables.json.                                 *)
(***************************************************************************)
DefIncome == [label |-> "Median household income", concept |-> "Income"]
DefPoverty == [label |-> "Poverty status", concept |-> "Poverty"]
DefPopulation == [label |-> "Total population", concept |-> "Population"]

\* str() of a variable's definition dict
ReprDefinition(def) ==
    "{'label': '" \o def.label \o "', 'concept': '" \o def.concept \o "'}"

(***************************************************************************)
(* The embedding provider (all-MiniLM-L6-v2): a deterministic map from a   *)
(* text to a vector of fixed norm.  Twelve integer points of the circle of *)
(* radius 5 stand for the unit sphere, so that the order by L2 distance is *)
(* the order by cosine distance.                                           *)
(***************************************************************************)
Circle ==
    << <<5, 0>>, <<4, 3>>, <<3, 4>>, <<0, 5>>, <<-3, 4>>, <<-4, 3>>,
       <<-5, 0>>, <<-4, -3>>, <<-3, -4>>, <<0, -5>>, <<3, -4>>, <<4, -3>> >>

TextCode(s) ==
    CASE s = "Decennial PL" -> 1
      [] s = "ACS 1-Year" -> 0
      [] s = "Economic Indicators" -> 3
      [] s = "No Title" -> 5
      [] s = "Redistricting data" -> 0
      [] s = "Redistricting population estimates" -> 0
      [] s = "Housing costs" -> 2
      [] s = "No Description" -> 4
      [] s = "Unknown Vintage" -> 1
      [] s = "redistricting population counts" -> 0
      [] s = "housing costs" -> 2
      [] s = "median income" -> 4
      [] s = ReprDefinition(DefIncome) -> 4
      [] s = ReprDefinition(DefPoverty) -> 7
      [] s = ReprDefinition(DefPopulation) -> 1
      [] OTHER -> 0

\* HuggingFaceEmbeddings.embed_documents, one text: a dataset's content
\* (line 53 of datasets_db.py) or a variable's (line 105 of census_api.py)
embed_document(content) ==
    IF "Title" \in DOMAIN content
    THEN Circle[((TextCode(content.Title) + TextCode(content.Description)
                  + TextCode(content.Vintage)) % 12) + 1]
    ELSE Circle[((TextCode(content.Details) + TextCode(content.Variable)) % 12) + 1]

\* HuggingFaceEmbeddings.embed_query
embed_query(query) == Circle[(TextCode(query) % 12) + 1]

(***************************************************************************)
(* The FAISS vector store (langchain_community.vectorstores.FAISS).        *)
(***************************************************************************)
\* fetch_k: similarity_search's default, used whenever a filter is passed
FetchK == 20

\* FAISS.from_documents with distance_strategy=COSINE: a flat L2 index over
\* the embedded texts.  len(embeddings[0]) raises IndexError on no documents.
FromDocuments(docs) ==
    IF docs = <<>> THEN Raise("IndexError")
    ELSE Ok([vecs |-> [i \in 1..Len(docs) |-> embed_document(docs[i].page_content)],
             docstore |-> docs,
             distance_strategy |-> "COSINE"])

\* create_vectordb, lines 74-82
create_vectordb(docs) == FromDocuments(docs)

\* IndexFlatL2's metric: the squared euclidean distance
L2sqr(a, b) == (a[1] - b[1]) * (a[1] - b[1]) + (a[2] - b[2]) * (a[2] - b[2])

RECURSIVE NearestLastInserted(_, _, _, _)
\* A changed index.search: of equal distances the last inserted comes first
NearestLastInserted(vecs, qv, n, taken) ==
    LET rest == (1..Len(vecs)) \ taken IN
    IF n = 0 \/ rest = {} THEN <<>>
    ELSE LET best == CHOOSE i \in rest : \A j \in rest :
                        \/ L2sqr(vecs[i], qv) < L2sqr(vecs[j], qv)
                        \/ (L2sqr(vecs[i], qv) = L2sqr(vecs[j], qv) /\ i >= j)
         IN <<best>> \o NearestLastInserted(vecs, qv, n - 1, taken \cup {best})

RECURSIVE Nearest(_, _, _, _)
\* index.search(vector, n): the positions of the n nearest vectors, nearest
\* first, equal distances in the order of insertion; fewer when the index
\* holds fewer (the -1 labels, which the caller skips).
Nearest(vecs, qv, n, taken) ==
    LET rest == (1..Len(vecs)) \ taken IN
    IF n = 0 \/ rest = {} THEN <<>>
    ELSE LET best == CHOOSE i \in rest : \A j \in rest :
                        \/ L2sqr(vecs[i], qv) < L2sqr(vecs[j], qv)
                        \/ (L2sqr(vecs[i], qv) = L2sqr(vecs[j], qv) /\ i <= j)
         IN <<best>> \o Nearest(vecs, qv, n - 1, taken \cup {best})

\* A filter handed to similarity_search: None, or a dict (possibly empty).
NoFilter == [none |-> TRUE, cond |-> <<>>]
DictFilter(cond) == [none |-> FALSE, cond |-> cond]

\* _create_filter_func of a dict: every key's value equals metadata.get(key)
FilterMatches(cond, metadata) ==
    \A f \in DOMAIN cond : f \in DOMAIN metadata /\ metadata[f] = cond[f]

RECURSIVE CollectDocs(_, _, _)
\* The loop of similarity_search_with_score_by_vector over the labels found:
\* a label the docstore does not hold raises, a document failing the filter
\* is dropped.
CollectDocs(db, labels, filter) ==
    IF labels = <<>> THEN Ok(<<>>)
    ELSE IF Head(labels) > Len(db.docstore) THEN Raise("KeyError")
    ELSE LET rest == CollectDocs(db, Tail(labels), filter)
             doc == db.docstore[Head(labels)]
         IN IF rest.err # "none" THEN rest
            ELSE IF filter.none \/ FilterMatches(filter.cond, doc.metadata)
                 THEN Ok(<<doc>> \o rest.val)
                 ELSE rest

\* seq[:k]
Prefix(seq, k) == SubSeq(seq, 1, IF k < Len(seq) THEN k ELSE Len(seq))

\* FAISS.similarity_search(query, k, filter): search k vectors when filter is
\* None and fetch_k otherwise, drop what the filter rejects, keep the first k.
similarity_search(db, query, k, filter) ==
    LET labels == Nearest(db.vecs, embed_query(query),
                          IF filter.none THEN k ELSE FetchK, {})
        docs == CollectDocs(db, labels, filter)
    IN IF docs.err # "none" THEN docs ELSE Ok(Prefix(docs.val, k))

\* [doc.page_content for doc in results]
PageContents(docs) == [i \in 1..Len(docs) |-> docs[i].page_content]

\* Python truthiness of an optional int / an optional str
TruthyInt(opt) == opt # None /\ opt[1] # 0
TruthyStr(opt) == opt # None /\ opt[1] # ""

\* Changed lines 148-154: the vintage argument left out of the filter
MetadataFilterWithoutVintage(vintage, key, api_base_url) ==
    [f \in (IF TruthyStr(key) THEN {"key"} ELSE {})
           \cup (IF TruthyStr(api_base_url) THEN {"apiBaseURL"} ELSE {}) |->
        IF f = "key" THEN key[1] ELSE api_base_url[1]]

\* Lines 148-154: the metadata filter built from the truthy arguments.
MetadataFilter(vintage, key, api_base_url) ==
    [f \in (IF TruthyInt(vintage) THEN {"c_vintage"} ELSE {})
           \cup (IF TruthyStr(key) THEN {"key"} ELSE {})
           \cup (IF TruthyStr(api_base_url) THEN {"apiBaseURL"} ELSE {}) |->
        IF f = "c_vintage" THEN vintage[1]
        ELSE IF f = "key" THEN key[1] ELSE api_base_url[1]]

\* search_census_datasets, lines 148-157, on the index db
search_census_datasets(db, query, k, vintage, key, api_base_url) ==
    LET metadata_filter == MetadataFilter(vintage, key, api_base_url)
        results == similarity_search(db, query, k, DictFilter(metadata_filter))
    IN IF results.err # "none" THEN results ELSE Ok(PageContents(results.val))

\* k's default, datasets_db.py line 128
DefaultK == 5

\* int(year) for the year strings asked with: digits, with or without
\* blanks around them, give the number; anything else raises ValueError.
ParseInt(year) ==
    CASE year = "2020" -> Ok(Some(2020))
      [] year = " 2020" -> Ok(Some(2020))
      [] year = "2021" -> Ok(Some(2021))
      [] year = "0" -> Ok(Some(0))
      [] OTHER -> Raise("ValueError")

\* Changed line 44: the year is not passed on
fetch_datasets_without_year(db, query, year, dataset, api_base_url) ==
    search_census_datasets(db, query, DefaultK, None, dataset, api_base_url)

\* fetch_datasets, census_api.py lines 42-47, on the index db
fetch_datasets(db, query, year, dataset, api_base_url) ==
    LET vintage == IF TruthyStr(year) THEN ParseInt(year[1]) ELSE Ok(None) IN
    IF vintage.err # "none" THEN vintage
    ELSE search_census_datasets(db, query, DefaultK, vintage.val, dataset,
                                api_base_url)

(***************************************************************************)
(* Durable storage: FAISS.save_local / FAISS.load_local on PERSIST_DIR.    *)
(***************************************************************************)
\* A file: absent, opened for writing and not yet written, written, or
\* damaged on disk.  A written file holds its data; `of` records the index
\* whose save wrote it (a history field: no code reads it).
NoFile == [state |-> "absent"]
Truncated == [state |-> "truncated"]
Garbled == [state |-> "garbled"]
Written(data, db) == [state |-> "written", data |-> data, of |-> db]

\* faiss.write_index(self.index, index.faiss): the vectors
WriteIndex(db) == Written(db.vecs, db)

\* pickle.dump((self.docstore, self.index_to_docstore_id), index.pkl)
PickleDump(db) == Written(db.docstore, db)

\* A changed load: the documents attached to the vectors in reverse order
LoadLocalReversed(index, docstore) ==
    [vecs |-> index,
     docstore |-> [i \in 1..Len(docstore) |-> docstore[Len(docstore) + 1 - i]],
     distance_strategy |-> "EUCLIDEAN_DISTANCE"]

\* FAISS.load_local: cls(embeddings, index, docstore, index_to_docstore_id);
\* the distance strategy is not stored and falls back to the default.
LoadLocal(index, docstore) ==
    [vecs |-> index, docstore |-> docstore,
     distance_strategy |-> "EUCLIDEAN_DISTANCE"]

\* A changed line 105: the branch taken on whether storage is usable
StorageUsable ==
    dir /\ faiss_file.state = "written" /\ pkl_file.state = "written"

\* os.path.exists(PERSIST_DIR), line 105
StorageExists == dir

(***************************************************************************)
(* The variable catalog of variables.json and fetch_dataset_variables.     *)
(* A dict is the sequence of its <<key, value>> items in insertion order.  *)
(***************************************************************************)
DictKeys(d) == {d[i][1] : i \in 1..Len(d)}
DictGet(d, k) == d[CHOOSE i \in 1..Len(d) : d[i][1] = k][2]

RECURSIVE DictFromItems(_, _)
\* {k: v for k, v in items}: a repeated key keeps its place and takes the
\* later value
DictFromItems(items, acc) ==
    IF items = <<>> THEN acc
    ELSE LET k == Head(items)[1]
             v == Head(items)[2]
         IN DictFromItems(Tail(items),
              IF k \in DictKeys(acc)
              THEN [i \in 1..Len(acc) |-> IF acc[i][1] = k THEN <<k, v>> ELSE acc[i]]
              ELSE Append(acc, <<k, v>>))

\* Changed lines 103-109: each variable's metadata takes the definition of
\* the variable after it
VariableDocumentsShifted(variables) ==
    [i \in 1..Len(variables) |->
        [page_content |-> [Variable |-> variables[i][1],
                           Details |-> ReprDefinition(variables[i][2])],
         metadata |-> << <<variables[i][1],
                           variables[(i % Len(variables)) + 1][2]>> >>]]

\* Lines 103-109: one Document per variable, its metadata the single entry
\* {variable_name: definition}
VariableDocuments(variables) ==
    [i \in 1..Len(variables) |->
        [page_content |-> [Variable |-> variables[i][1],
                           Details |-> ReprDefinition(variables[i][2])],
         metadata |-> << <<variables[i][1], variables[i][2]>> >>]]

\* quick_faiss_search(documents, query, top_k), lines 58-67: a throwaway
\* index, searched without a filter
quick_faiss_search(docs, query, top_k) ==
    LET db == FromDocuments(docs) IN
    IF db.err # "none" THEN db
    ELSE similarity_search(db.val, query, top_k, NoFilter)

\* top_k's default, quick_search.py line 40
DefaultTopK == 10

RECURSIVE MetadataItems(_)
\* for doc in search_results for k, v in doc.metadata.items()
MetadataItems(docs) ==
    IF docs = <<>> THEN <<>> ELSE Head(docs).metadata \o MetadataItems(Tail(docs))

\* fetch_dataset_variables, lines 97-117.  status_ok: whether the GET
\* returned and raise_for_status passed; response: the JSON body;
\* query: Optional[str].
fetch_dataset_variables(status_ok, response, query) ==
    IF ~status_ok THEN Raise("HTTPStatusError")
    ELSE IF TruthyStr(query)
    THEN LET variables == VariableDocuments(response.variables)
             search_results == quick_faiss_search(variables, query[1], DefaultTopK)
         IN IF search_results.err # "none" THEN search_results
            ELSE Ok([variables |->
                       DictFromItems(MetadataItems(search_results.val), <<>>)])
    ELSE Ok(response)

(***************************************************************************)
(* The place-name lookup: fetch_dataset_fips / lookup_dataset_fips.  The   *)
(* FIPS table is a sequence of rows, the header first.                     *)
(***************************************************************************)
\* fetch_dataset_fips, lines 217-220
fetch_dataset_fips(status_ok, body) ==
    IF ~status_ok THEN Raise("HTTPStatusError") ELSE Ok(body)

\* {col: row[idx] for idx, col in enumerate(header) if idx != 0}
RowDict(header, row) ==
    DictFromItems([i \in 1..(Len(header) - 1) |-> <<header[i + 1], row[i + 1]>>],
                  <<>>)

\* Lines 260-263: {row[0]: {...} for row in rows}
LookupDict(header, rows) ==
    DictFromItems([i \in 1..Len(rows) |-> <<rows[i][1], RowDict(header, rows[i])>>],
                  <<>>)

\* Changed line 265: a name that is not found gives an empty value
lookup_dataset_fips_or_empty(status_ok, body, name) ==
    LET resp == fetch_dataset_fips(status_ok, body) IN
    IF resp.err # "none" THEN resp
    ELSE IF resp.val = <<>> THEN Raise("ValueError")
    ELSE LET header == Head(resp.val)
             rows == Tail(resp.val)
         IN IF \E i \in 1..Len(rows) :
                  Len(rows[i]) = 0 \/ Len(rows[i]) < Len(header)
            THEN Raise("IndexError")
            ELSE LET lookup_dict == LookupDict(header, rows) IN
                 IF name \in DictKeys(lookup_dict)
                 THEN Ok(DictGet(lookup_dict, name))
                 ELSE Ok(<<>>)

\* lookup_dataset_fips, lines 252-266.  `header, *rows = resp` raises
\* ValueError on an empty table, row[idx] IndexError on a short row,
\* lookup_dict[name] KeyError on a name no row has.
lookup_dataset_fips(status_ok, body, name) ==
    LET resp == fetch_dataset_fips(status_ok, body) IN
    IF resp.err # "none" THEN resp
    ELSE IF resp.val = <<>> THEN Raise("ValueError")
    ELSE LET header == Head(resp.val)
             rows == Tail(resp.val)
         IN IF \E i \in 1..Len(rows) :
                  Len(rows[i]) = 0 \/ Len(rows[i]) < Len(header)
            THEN Raise("IndexError")
            ELSE LET lookup_dict == LookupDict(header, rows) IN
                 IF name \in DictKeys(lookup_dict)
                 THEN Ok(DictGet(lookup_dict, name))
                 ELSE Raise("KeyError")

(***************************************************************************)
(* Catalogs the upstream API serves over time.                             *)
(***************************************************************************)
CatA == <<DDecPl, DAcs>>
CatB == <<DAcs2020, DEits, DDecPl>>

LifecycleCatalogs == {CatA, CatB}

(***************************************************************************)
(* Processes.                                                              *)
(***************************************************************************)
NoDb == [vecs |-> <<>>, docstore |-> <<>>, distance_strategy |-> "unset"]
\* What a process has done since it started: how often it ran
\* load_or_create_vectordb, fetched the catalog, embedded a document set,
\* read a storage file, opened one for writing, completed a save; and the
\* indexes whose saves wrote the two files it loaded.
NoHist == [load_or_create |-> 0, fetch |-> 0, embed |-> 0, read |-> 0,
           write |-> 0, saved |-> 0, faiss_of |-> NoDb, pkl_of |-> NoDb]
NoCall == [proc |-> "none"]

\* out, vout and fout hold the request just answered, until its response
\* is delivered; the event loop answers one request at a time.
\* What a caller keeps of a response, no step of the program changes.
Quiet == out' = NoCall /\ vout' = NoCall /\ fout' = NoCall /\ seen' = seen
Idle == out = NoCall /\ vout = NoCall /\ fout = NoCall

Running(p) == pc[p] \notin {"off", "failed", "exited"}

Bump(p, field) == [hist EXCEPT ![p][field] = @ + 1]

\* The memory of a process that ended is gone.
Gone(p) ==
    /\ documents' = [documents EXCEPT ![p] = <<>>]
    /\ local_db' = [local_db EXCEPT ![p] = NoDb]
    /\ vectordb' = [vectordb EXCEPT ![p] = NoDb]
    /\ default_vectordb' = [default_vectordb EXCEPT ![p] = NoDb]

\* An exception leaves the module's code: the process ends.
Fail(p, e) ==
    /\ pc' = [pc EXCEPT ![p] = "failed"]
    /\ err' = [err EXCEPT ![p] = e]
    /\ phase' = phase
    /\ Gone(p)

\* A changed search: the index reloaded from storage on every call
SearchIndexReloaded(p) ==
    IF faiss_file.state = "written" /\ pkl_file.state = "written"
    THEN LoadLocal(faiss_file.data, pkl_file.data)
    ELSE default_vectordb[p]

\* The index a search_census_datasets call without its own index runs on:
\* the default argument of line 132, bound when the def statement ran.
SearchIndex(p) == default_vectordb[p]

\* A changed start: the script runs its __main__ block without the
\* module-level load before it
StartRebuildOnly(p, k) ==
    /\ ~Running(p)
    /\ pc' = [pc EXCEPT ![p] = IF k = "script" THEN "fetch" ELSE "import"]
    /\ kind' = [kind EXCEPT ![p] = k]
    /\ phase' = [phase EXCEPT ![p] = IF k = "script" THEN "rebuild" ELSE "init"]
    /\ path' = [path EXCEPT ![p] = "none"]
    /\ documents' = [documents EXCEPT ![p] = <<>>]
    /\ local_db' = [local_db EXCEPT ![p] = NoDb]
    /\ vectordb' = [vectordb EXCEPT ![p] = NoDb]
    /\ default_vectordb' = [default_vectordb EXCEPT ![p] = NoDb]
    /\ err' = [err EXCEPT ![p] = "none"]
    /\ hist' = [hist EXCEPT ![p] = NoHist]
    /\ UNCHANGED <<upstream, dir, faiss_file, pkl_file>>
    /\ Quiet

\* A process starts: a server importing the module (gradio_app.py line 3,
\* via census_api.py line 7) or the module run as a script.
Start(p, k) ==
    /\ ~Running(p)
    /\ pc' = [pc EXCEPT ![p] = "import"]
    /\ kind' = [kind EXCEPT ![p] = k]
    /\ phase' = [phase EXCEPT ![p] = "init"]
    /\ path' = [path EXCEPT ![p] = "none"]
    /\ documents' = [documents EXCEPT ![p] = <<>>]
    /\ local_db' = [local_db EXCEPT ![p] = NoDb]
    /\ vectordb' = [vectordb EXCEPT ![p] = NoDb]
    /\ default_vectordb' = [default_vectordb EXCEPT ![p] = NoDb]
    /\ err' = [err EXCEPT ![p] = "none"]
    /\ hist' = [hist EXCEPT ![p] = NoHist]
    /\ UNCHANGED <<upstream, dir, faiss_file, pkl_file>>
    /\ Quiet

\* Line 123 calls load_or_create_vectordb; line 105 picks the branch.
LoadOrCreate(p) ==
    /\ pc[p] = "import"
    /\ IF StorageExists
       THEN /\ pc' = [pc EXCEPT ![p] = "read_faiss"]
            /\ path' = [path EXCEPT ![p] = "load"]
       ELSE /\ pc' = [pc EXCEPT ![p] = "fetch"]
            /\ path' = [path EXCEPT ![p] = "build"]
    /\ hist' = Bump(p, "load_or_create")
    /\ UNCHANGED <<upstream, dir, faiss_file, pkl_file, kind, phase, documents,
                   local_db, vectordb, default_vectordb, err>>
    /\ Quiet

\* Lines 123-133 after load_or_create_vectordb returned db: the module global
\* is bound, then the def statement binds the default argument.  A server is
\* then ready for requests; the script goes on to its __main__ block.
FinishInit(p, db) ==
    /\ local_db' = [local_db EXCEPT ![p] = db]
    /\ documents' = documents
    /\ err' = err
    /\ vectordb' = [vectordb EXCEPT ![p] = db]
    /\ default_vectordb' = [default_vectordb EXCEPT ![p] = db]
    /\ IF kind[p] = "server"
       THEN /\ pc' = [pc EXCEPT ![p] = "ready"]
            /\ phase' = phase
       ELSE /\ pc' = [pc EXCEPT ![p] = "fetch"]
            /\ phase' = [phase EXCEPT ![p] = "rebuild"]

\* FAISS.load_local, first half: faiss.read_index(index.faiss)
ReadFaiss(p) ==
    /\ pc[p] = "read_faiss"
    /\ hist' = [hist EXCEPT ![p].read = @ + 1,
                            ![p].faiss_of = IF faiss_file.state = "written"
                                            THEN faiss_file.of ELSE @]
    /\ IF faiss_file.state = "written"
       THEN /\ local_db' = [local_db EXCEPT ![p] = [NoDb EXCEPT !.vecs = faiss_file.data]]
            /\ pc' = [pc EXCEPT ![p] = "read_pkl"]
            /\ UNCHANGED <<err, phase, documents, vectordb, default_vectordb>>
       ELSE Fail(p, "RuntimeError")
    /\ UNCHANGED <<upstream, dir, faiss_file, pkl_file, kind, path>>
    /\ Quiet

\* FAISS.load_local, second half: pickle.load(index.pkl), then the store
ReadPkl(p) ==
    /\ pc[p] = "read_pkl"
    /\ hist' = [hist EXCEPT ![p].read = @ + 1,
                            ![p].pkl_of = IF pkl_file.state = "written"
                                          THEN pkl_file.of ELSE @]
    /\ IF pkl_file.state = "written"
       THEN FinishInit(p, LoadLocal(local_db[p].vecs, pkl_file.data))
       ELSE Fail(p, IF pkl_file.state = "absent" THEN "FileNotFoundError"
                    ELSE IF pkl_file.state = "truncated" THEN "EOFError"
                    ELSE "UnpicklingError")
    /\ UNCHANGED <<upstream, dir, faiss_file, pkl_file, kind, path>>
    /\ Quiet

\* A changed fetch: a failed GET is tried again
FetchRetrying(p) ==
    /\ pc[p] = "fetch"
    /\ hist' = Bump(p, "fetch")
    /\ \E status_ok \in BOOLEAN :
         LET r == fetch_census_dataset_documents(status_ok, upstream) IN
         IF r.err = "none"
         THEN /\ documents' = [documents EXCEPT ![p] = r.val]
              /\ pc' = [pc EXCEPT ![p] = "create"]
         ELSE /\ documents' = documents
              /\ pc' = pc
    /\ UNCHANGED <<err, phase, local_db, vectordb, default_vectordb>>
    /\ UNCHANGED <<upstream, dir, faiss_file, pkl_file, kind, path>>
    /\ Quiet

\* fetch_census_dataset_documents (line 115 or line 163): one GET, then the
\* mapping of every entry.
Fetch(p) ==
    /\ pc[p] = "fetch"
    /\ hist' = Bump(p, "fetch")
    /\ \E status_ok \in BOOLEAN :
         LET r == fetch_census_dataset_documents(status_ok, upstream) IN
         IF r.err = "none"
         THEN /\ documents' = [documents EXCEPT ![p] = r.val]
              /\ pc' = [pc EXCEPT ![p] = "create"]
              /\ UNCHANGED <<err, phase, local_db, vectordb, default_vectordb>>
         ELSE Fail(p, r.err)
    /\ UNCHANGED <<upstream, dir, faiss_file, pkl_file, kind, path>>
    /\ Quiet

\* create_vectordb(documents) (line 116 or line 165, which assigns the
\* module global)
Create(p) ==
    /\ pc[p] = "create"
    /\ hist' = Bump(p, "embed")
    /\ LET r == create_vectordb(documents[p]) IN
       IF r.err = "none"
       THEN /\ local_db' = [local_db EXCEPT ![p] = r.val]
            /\ vectordb' = IF phase[p] = "rebuild"
                           THEN [vectordb EXCEPT ![p] = r.val] ELSE vectordb
            /\ pc' = [pc EXCEPT ![p] = "mkdir"]
            /\ UNCHANGED <<err, phase, documents, default_vectordb>>
       ELSE Fail(p, r.err)
    /\ UNCHANGED <<upstream, dir, faiss_file, pkl_file, kind, path>>
    /\ Quiet

\* save_vectordb -> FAISS.save_local: path.mkdir(exist_ok=True, parents=True)
Mkdir(p) ==
    /\ pc[p] = "mkdir"
    /\ dir' = TRUE
    /\ pc' = [pc EXCEPT ![p] = "open_faiss"]
    /\ UNCHANGED <<upstream, faiss_file, pkl_file, kind, phase, path, documents,
                   local_db, vectordb, default_vectordb, err, hist>>
    /\ Quiet

\* faiss.write_index opens index.faiss for writing, which empties it ...
OpenFaiss(p) ==
    /\ pc[p] = "open_faiss"
    /\ faiss_file' = Truncated
    /\ hist' = Bump(p, "write")
    /\ pc' = [pc EXCEPT ![p] = "write_faiss"]
    /\ UNCHANGED <<upstream, dir, pkl_file, kind, phase, path, documents,
                   local_db, vectordb, default_vectordb, err>>
    /\ Quiet

\* ... and writes the index
WriteFaiss(p) ==
    /\ pc[p] = "write_faiss"
    /\ faiss_file' = WriteIndex(local_db[p])
    /\ pc' = [pc EXCEPT ![p] = "open_pkl"]
    /\ UNCHANGED <<upstream, dir, pkl_file, kind, phase, path, documents,
                   local_db, vectordb, default_vectordb, err, hist>>
    /\ Quiet

\* open(index.pkl, "wb") empties the file ...
OpenPkl(p) ==
    /\ pc[p] = "open_pkl"
    /\ pkl_file' = Truncated
    /\ hist' = Bump(p, "write")
    /\ pc' = [pc EXCEPT ![p] = "dump_pkl"]
    /\ UNCHANGED <<upstream, dir, faiss_file, kind, phase, path, documents,
                   local_db, vectordb, default_vectordb, err>>
    /\ Quiet

\* ... and pickle.dump writes the docstore; save_vectordb returns.  In
\* load_or_create_vectordb the index is then returned (line 119); in the
\* __main__ block the script ends (line 167).
DumpPkl(p) ==
    /\ pc[p] = "dump_pkl"
    /\ pkl_file' = PickleDump(local_db[p])
    /\ hist' = Bump(p, "saved")
    /\ IF phase[p] = "init"
       THEN FinishInit(p, local_db[p])
       ELSE /\ pc' = [pc EXCEPT ![p] = "exited"]
            /\ Gone(p)
            /\ UNCHANGED <<phase, err>>
    /\ UNCHANGED <<upstream, dir, faiss_file, kind, path>>
    /\ Quiet

\* A changed request: each search drops the first entry of the index it
\* searched
SearchConsuming(p, query, k, vintage, key, api_base_url) ==
    /\ pc[p] = "ready"
    /\ Idle
    /\ out' = [proc |-> p, query |-> query, k |-> k, vintage |-> vintage,
               key |-> key, api_base_url |-> api_base_url,
               db |-> SearchIndex(p),
               result |-> search_census_datasets(SearchIndex(p), query, k,
                                                 vintage, key, api_base_url)]
    /\ default_vectordb' =
         [default_vectordb EXCEPT ![p] =
            IF Len(@.vecs) > 1 /\ Len(@.docstore) > 1
            THEN [@ EXCEPT !.vecs = Tail(@), !.docstore = Tail(@)]
            ELSE @]
    /\ UNCHANGED <<upstream, dir, faiss_file, pkl_file, pc, kind, phase, path,
                   documents, local_db, vectordb, err, hist>>
    /\ vout' = NoCall
    /\ fout' = NoCall
    /\ seen' = seen

\* A request: search_census_datasets(query, k, vintage, key, api_base_url)
Search(p, query, k, vintage, key, api_base_url) ==
    /\ pc[p] = "ready"
    /\ Idle
    /\ out' = [proc |-> p, query |-> query, k |-> k, vintage |-> vintage,
               key |-> key, api_base_url |-> api_base_url,
               db |-> SearchIndex(p),
               result |-> search_census_datasets(SearchIndex(p), query, k,
                                                 vintage, key, api_base_url)]
    /\ UNCHANGED <<upstream, dir, faiss_file, pkl_file, pc, kind, phase, path,
                   documents, local_db, vectordb, default_vectordb, err, hist>>
    /\ vout' = NoCall
    /\ fout' = NoCall
    /\ seen' = seen

\* A request: fetch_datasets(query, year, dataset, api_base_url)
FetchDatasets(p, query, year, dataset, api_base_url) ==
    /\ pc[p] = "ready"
    /\ Idle
    /\ out' = [proc |-> p, query |-> query, year |-> year, k |-> DefaultK,
               key |-> dataset, api_base_url |-> api_base_url,
               db |-> SearchIndex(p),
               result |-> fetch_datasets(SearchIndex(p), query, year, dataset,
                                         api_base_url)]
    /\ UNCHANGED <<upstream, dir, faiss_file, pkl_file, pc, kind, phase, path,
                   documents, local_db, vectordb, default_vectordb, err, hist>>
    /\ vout' = NoCall
    /\ fout' = NoCall
    /\ seen' = seen

\* A changed request: the index built for the variables is saved to
\* PERSIST_DIR
FetchDatasetVariablesSaving(p, status_ok, variables, query) ==
    /\ pc[p] = "ready"
    /\ Idle
    /\ vout' = [proc |-> p, status_ok |-> status_ok, variables |-> variables,
                query |-> query,
                result |-> fetch_dataset_variables(
                               status_ok, [variables |-> variables], query)]
    /\ LET db == FromDocuments(VariableDocuments(variables)) IN
       IF status_ok /\ TruthyStr(query) /\ db.err = "none"
       THEN /\ dir' = TRUE
            /\ faiss_file' = WriteIndex(db.val)
            /\ pkl_file' = PickleDump(db.val)
       ELSE UNCHANGED <<dir, faiss_file, pkl_file>>
    /\ UNCHANGED <<upstream, pc, kind, phase, path,
                   documents, local_db, vectordb, default_vectordb, err, hist>>
    /\ out' = NoCall
    /\ fout' = NoCall
    /\ seen' = seen

\* A request: fetch_dataset_variables(year, dataset, query); the variables
\* of that dataset are what upstream answers.
FetchDatasetVariables(p, status_ok, variables, query) ==
    /\ pc[p] = "ready"
    /\ Idle
    /\ vout' = [proc |-> p, status_ok |-> status_ok, variables |-> variables,
                query |-> query,
                result |-> fetch_dataset_variables(
                               status_ok, [variables |-> variables], query)]
    /\ UNCHANGED <<upstream, dir, faiss_file, pkl_file, pc, kind, phase, path,
                   documents, local_db, vectordb, default_vectordb, err, hist>>
    /\ out' = NoCall
    /\ fout' = NoCall
    /\ seen' = seen

\* A request: lookup_dataset_fips(name, year, dataset, geography); body is
\* the table upstream answers the FIPS query with.
LookupDatasetFips(p, status_ok, body, name) ==
    /\ pc[p] = "ready"
    /\ Idle
    /\ fout' = [proc |-> p, status_ok |-> status_ok, body |-> body,
                name |-> name,
                result |-> lookup_dataset_fips(status_ok, body, name)]
    /\ UNCHANGED <<upstream, dir, faiss_file, pkl_file, pc, kind, phase, path,
                   documents, local_db, vectordb, default_vectordb, err, hist>>
    /\ out' = NoCall
    /\ vout' = NoCall
    /\ seen' = seen

\* The response of the request just answered is returned to the caller
\* (line 157 of datasets_db.py, lines 112-117 and 266 of census_api.py).
Deliver ==
    /\ ~Idle
    /\ Quiet
    /\ UNCHANGED <<upstream, dir, faiss_file, pkl_file, pc, kind, phase, path,
                   documents, local_db, vectordb, default_vectordb, err, hist>>

\* The response of a search is returned and its caller keeps it, with the
\* process-wide index (the module global) of the process that answered.
DeliverKept ==
    /\ out # NoCall
    /\ seen' = [out EXCEPT !.db = vectordb[out.proc]]
    /\ out' = NoCall
    /\ UNCHANGED <<upstream, dir, faiss_file, pkl_file, pc, kind, phase, path,
                   documents, local_db, vectordb, default_vectordb, err, hist,
                   vout, fout>>

\* The server is shut down (launch returns, gradio_app.py line 59).
Stop(p) ==
    /\ pc[p] = "ready"
    /\ pc' = [pc EXCEPT ![p] = "off"]
    /\ Gone(p)
    /\ path' = [path EXCEPT ![p] = "none"]
    /\ hist' = [hist EXCEPT ![p] = NoHist]
    /\ UNCHANGED <<upstream, dir, faiss_file, pkl_file, kind, phase, err>>
    /\ Quiet

\* The Census Bureau publishes another catalog at the same URL (line 30).
UpstreamChange(c) ==
    /\ c # upstream
    /\ upstream' = c
    /\ UNCHANGED <<dir, faiss_file, pkl_file, pc, kind, phase, path, documents,
                   local_db, vectordb, default_vectordb, err, hist>>
    /\ Quiet

Step(p) ==
    \/ LoadOrCreate(p)
    \/ ReadFaiss(p)
    \/ ReadPkl(p)
    \/ Fetch(p)
    \/ Create(p)
    \/ Mkdir(p)
    \/ OpenFaiss(p)
    \/ WriteFaiss(p)
    \/ OpenPkl(p)
    \/ DumpPkl(p)

(***************************************************************************)
(* Spec: the life of the persistent index.  Processes of both kinds start, *)
(* load or build, serve, rebuild and stop, over a changing upstream.       *)
(***************************************************************************)
InitProcs ==
    /\ pc = [p \in Procs |-> "off"]
    /\ kind = [p \in Procs |-> "server"]
    /\ phase = [p \in Procs |-> "init"]
    /\ path = [p \in Procs |-> "none"]
    /\ documents = [p \in Procs |-> <<>>]
    /\ local_db = [p \in Procs |-> NoDb]
    /\ vectordb = [p \in Procs |-> NoDb]
    /\ default_vectordb = [p \in Procs |-> NoDb]
    /\ err = [p \in Procs |-> "none"]
    /\ hist = [p \in Procs |-> NoHist]
    /\ out = NoCall
    /\ vout = NoCall
    /\ fout = NoCall
    /\ seen = NoCall

InitStorage ==
    /\ dir = FALSE
    /\ faiss_file = NoFile
    /\ pkl_file = NoFile

Init ==
    /\ upstream = CatA
    /\ InitStorage
    /\ InitProcs

LifecycleQueries == {"redistricting population counts"}
LifecycleVintages == {None, Some(2020)}

Next ==
    \/ \E p \in Procs, k \in {"server", "script"} : Start(p, k)
    \/ \E p \in Procs : Step(p)
    \/ \E p \in Procs : Stop(p)
    \/ \E c \in LifecycleCatalogs : UpstreamChange(c)
    \/ \E p \in Procs, q \in LifecycleQueries, k \in 1..MaxK,
          v \in LifecycleVintages : Search(p, q, k, v, None, None)
    \/ \E p \in Procs : FetchDatasetVariables(p, TRUE, <<>>, None)
    \/ Deliver

Spec == Init /\ [][Next]_vars

(***************************************************************************)
(* SpecIngest: one server process starts on empty storage and ingests a    *)
(* catalog drawn from all catalogs of at most MaxCatalog descriptors, each *)
(* descriptor with or without each of its optional fields.                 *)
(***************************************************************************)
\* The distribution list of a descriptor: left out, empty, one entry with
\* an access URL, one entry without.
DistributionShapes == {"absent", "empty", "url", "nourl"}

Descriptor(has_vintage, has_title, has_description, shape) ==
    [f \in {"c_dataset"}
           \cup (IF has_vintage THEN {"c_vintage"} ELSE {})
           \cup (IF has_title THEN {"title"} ELSE {})
           \cup (IF has_description THEN {"description"} ELSE {})
           \cup (IF shape = "absent" THEN {} ELSE {"distribution"}) |->
        CASE f = "c_dataset" -> <<"dec", "pl">>
          [] f = "c_vintage" -> 2020
          [] f = "title" -> "Decennial PL"
          [] f = "description" -> "Redistricting data"
          [] f = "distribution" ->
               IF shape = "empty" THEN <<>>
               ELSE IF shape = "url" THEN <<[accessURL |-> UrlDecPl]>>
               ELSE <<[format |-> "API"]>>]

DescriptorSpace ==
    {Descriptor(v, t, d, s) : v \in BOOLEAN, t \in BOOLEAN, d \in BOOLEAN,
                              s \in DistributionShapes}

IngestCatalogs == UNION {[1..n -> DescriptorSpace] : n \in 0..MaxCatalog}

InitIngest ==
    /\ upstream \in IngestCatalogs
    /\ InitStorage
    /\ InitProcs

NextIngest ==
    \/ Start("p1", "server")
    \/ LoadOrCreate("p1")
    \/ Fetch("p1")
    \/ Create("p1")

SpecIngest == InitIngest /\ [][NextIngest]_vars

(***************************************************************************)
(* SpecSearch: one server process builds the index of a catalog and        *)
(* answers search requests with every combination of arguments.            *)
(***************************************************************************)
\* An entry of vintage 2021 that matches the redistricting query exactly
FillerDataset(i) ==
    [c_vintage |-> 2021, title |-> "ACS 1-Year",
     description |-> "Redistricting population estimates",
     distribution |-> <<[accessURL |-> UrlAcs]>>,
     c_dataset |-> <<"acs", "acs" \o ToString(i)>>]

\* An entry of vintage 2020, further from that query
Vintage2020Dataset(i) ==
    [c_vintage |-> 2020, title |-> "Decennial PL",
     description |-> "Redistricting data",
     distribution |-> <<[accessURL |-> UrlDecPl]>>,
     c_dataset |-> <<"dec", "pl" \o ToString(i)>>]

\* A catalog larger than fetch_k: BigExtra entries of vintage 2020, then
\* fetch_k entries of vintage 2021
BigCatalog ==
    [i \in 1..(BigExtra + FetchK) |->
        IF i <= BigExtra THEN Vintage2020Dataset(i) ELSE FillerDataset(i)]

CatSearch == <<DDecPl, DAcs, DEits, DNoKey, DAcs2020>>

\* A catalog with two entries at the same distance from the redistricting
\* query and others further away
CatTies == <<DDecPl, DAcs, FillerDataset(1), DAcs2020>>

SearchCatalogs == {CatSearch, CatTies, BigCatalog}
SearchQueries == {"redistricting population counts", "housing costs"}
SearchKs == {1, 2, 5, FetchK + 1}
SearchVintages == {None, Some(0), Some(2020), Some(2021)}
SearchKeys == {None, Some(""), Some("dec/pl")}
SearchUrls == {None, Some(""), Some(UrlDecPl)}

InitSearch ==
    /\ upstream \in SearchCatalogs
    /\ InitStorage
    /\ InitProcs

NextSearch ==
    \/ Start("p1", "server")
    \/ Step("p1")
    \/ Stop("p1")
    \/ \E q \in SearchQueries, k \in SearchKs, v \in SearchVintages,
          key \in SearchKeys, url \in SearchUrls :
         Search("p1", q, k, v, key, url)
    \/ Deliver

SpecSearch == InitSearch /\ [][NextSearch]_vars

(***************************************************************************)
(* SpecVars: one server process answers fetch_dataset_variables requests   *)
(* over variable catalogs of 0..MaxVars variables.                         *)
(***************************************************************************)
VarName(i) == "B19013_" \o ToString(i)

\* The definition of the i-th variable of a catalog of shape s
VarDef(i, s) ==
    IF (i + s) % 3 = 0 THEN DefIncome
    ELSE IF (i + s) % 3 = 1 THEN DefPoverty ELSE DefPopulation

VarCatalog(n, s) == [i \in 1..n |-> <<VarName(i), VarDef(i, s)>>]

VarCatalogs == {VarCatalog(n, s) : n \in 0..MaxVars, s \in 0..2}
VarQueries == {None, Some(""), Some("median income"), Some("housing costs")}

NextVars ==
    \/ Start("p1", "server")
    \/ Step("p1")
    \/ Stop("p1")
    \/ \E ok \in BOOLEAN, variables \in VarCatalogs, q \in VarQueries :
         FetchDatasetVariables("p1", ok, variables, q)
    \/ Deliver

SpecVars == Init /\ [][NextVars]_vars

(***************************************************************************)
(* SpecRepeat: a server answers searches whose callers keep responses,     *)
(* while the script rebuilds storage from a changing upstream.             *)
(***************************************************************************)
NextRepeat ==
    \/ Start("p1", "server")
    \/ Start("p2", "script")
    \/ \E p \in Procs : Step(p)
    \/ Stop("p1")
    \/ \E c \in LifecycleCatalogs : UpstreamChange(c)
    \/ \E q \in LifecycleQueries, k \in 1..MaxK, v \in LifecycleVintages :
         Search("p1", q, k, v, None, None)
    \/ Deliver
    \/ DeliverKept

SpecRepeat == Init /\ [][NextRepeat]_vars

(***************************************************************************)
(* SpecServe: a server answers dataset searches and variable searches      *)
(* while the script rebuilds storage from a changing upstream.             *)
(***************************************************************************)
ServeVarCatalogs == {VarCatalog(0, 0), VarCatalog(3, 1)}
ServeVarQueries == {None, Some("median income")}

NextServe ==
    \/ Start("p1", "server")
    \/ Start("p2", "script")
    \/ \E p \in Procs : Step(p)
    \/ Stop("p1")
    \/ \E c \in LifecycleCatalogs : UpstreamChange(c)
    \/ \E q \in LifecycleQueries, k \in 1..MaxK, v \in LifecycleVintages :
         Search("p1", q, k, v, None, None)
    \/ \E ok \in BOOLEAN, variables \in ServeVarCatalogs, q \in ServeVarQueries :
         FetchDatasetVariables("p1", ok, variables, q)
    \/ Deliver

SpecServe == Init /\ [][NextServe]_vars

(***************************************************************************)
(* SpecFetch: one server process answers fetch_datasets requests and       *)
(* direct search_census_datasets calls, with absent, falsy and truthy      *)
(* filter arguments.                                                       *)
(***************************************************************************)
FetchYears ==
    {None, Some(""), Some("0"), Some("2020"), Some(" 2020"), Some("2021"),
     Some("twenty")}
FetchKs == {1, DefaultK}

NextFetch ==
    \/ Start("p1", "server")
    \/ Step("p1")
    \/ Stop("p1")
    \/ \E k \in FetchKs, v \in SearchVintages, key \in SearchKeys,
          url \in SearchUrls :
         Search("p1", "redistricting population counts", k, v, key, url)
    \/ \E year \in FetchYears, dataset \in SearchKeys, url \in SearchUrls :
         FetchDatasets("p1", "redistricting population counts", year, dataset,
                       url)
    \/ Deliver

SpecFetch == InitSearch /\ [][NextFetch]_vars

(***************************************************************************)
(* SpecFips: one server process answers lookup_dataset_fips requests over  *)
(* FIPS tables of at most MaxRows rows.                                    *)
(***************************************************************************)
FipsHeader == <<"NAME", "state", "county">>

\* Rows of a county table; one name stands in two rows
FipsRows ==
    { <<"Los Angeles County, California", "06", "037">>,
      <<"Orange County, California", "06", "059">>,
      <<"Orange County, California", "12", "095">>,
      <<"Los Angeles County", "48", "001">> }

FipsTables ==
    {<<>>} \cup {<<FipsHeader>> \o rows :
                    rows \in UNION {[1..n -> FipsRows] : n \in 0..MaxRows}}

\* Names asked for: held by a row, held by two, near to one, held by none
FipsNames ==
    {"Los Angeles County, California", "Orange County, California",
     "Los Angeles County", "los angeles county, california", "Los Angeles", ""}

NextFips ==
    \/ Start("p1", "server")
    \/ Step("p1")
    \/ Stop("p1")
    \/ \E ok \in BOOLEAN, body \in FipsTables, name \in FipsNames :
         LookupDatasetFips("p1", ok, body, name)
    \/ Deliver

SpecFips == Init /\ [][NextFips]_vars

(***************************************************************************)
(* SpecStorage: one process, a server or the script, starts on durable     *)
(* storage in any condition: absent, an empty directory, files left by an  *)
(* interrupted save or a half-done rebuild, damaged files, a whole index.  *)
(***************************************************************************)
\* The index create_vectordb makes of a catalog
IndexOf(catalog) ==
    create_vectordb(fetch_census_dataset_documents(TRUE, catalog).val).val

StoredIndexes == {IndexOf(c) : c \in LifecycleCatalogs}

InitStorageAny ==
    \/ InitStorage
    \/ /\ dir = TRUE
       /\ faiss_file \in {NoFile, Truncated, Garbled}
                          \cup {WriteIndex(db) : db \in StoredIndexes}
       /\ pkl_file \in {NoFile, Truncated, Garbled}
                        \cup {PickleDump(db) : db \in StoredIndexes}

InitAnyStorage ==
    /\ upstream \in LifecycleCatalogs
    /\ InitStorageAny
    /\ InitProcs

NextStorage ==
    \/ \E k \in {"server", "script"} : Start("p1", k)
    \/ Step("p1")
    \/ Stop("p1")

SpecStorage == InitAnyStorage /\ [][NextStorage]_vars

(***************************************************************************)
(* Properties.                                                             *)
(***************************************************************************)
\* Storage holds what one completed save wrote, and nothing else
StorageSound ==
    /\ dir
    /\ faiss_file.state = "written"
    /\ pkl_file.state = "written"
    /\ faiss_file.of = pkl_file.of

\* The module-level step (line 123) has returned in p: its index is bound.
Initialised(p) == pc[p] = "ready" \/ (Running(p) /\ phase[p] = "rebuild")

\* On the load branch, while line 123 runs and while a server serves:
\* no catalog fetch, no embedding, no write to storage.
C1_LoadBranch ==
    \A p \in Procs :
        (path[p] = "load" /\ phase[p] = "init") =>
            /\ hist[p].fetch = 0
            /\ hist[p].embed = 0
            /\ hist[p].write = 0
            /\ hist[p].saved = 0

\* On the build branch: the fetch comes before the embedding, the embedding
\* of every fetched entry before the first write, and the completed save
\* before the index is bound; nothing is read from storage.
C1_BuildBranch ==
    \A p \in Procs :
        (path[p] = "build" /\ Running(p)) =>
            /\ hist[p].read = 0
            /\ (phase[p] = "init" /\ pc[p] = "fetch") =>
                   hist[p].fetch = 0 /\ hist[p].embed = 0 /\ hist[p].write = 0
            /\ (phase[p] = "init" /\ pc[p] = "create") =>
                   hist[p].fetch = 1 /\ hist[p].embed = 0 /\ hist[p].write = 0
            /\ (phase[p] = "init" /\ pc[p] \in {"mkdir", "open_faiss"}) =>
                   /\ hist[p].fetch = 1 /\ hist[p].embed = 1 /\ hist[p].write = 0
                   /\ Len(local_db[p].docstore) = Len(documents[p])
                   /\ Len(local_db[p].vecs) = Len(documents[p])
            /\ Initialised(p) =>
                   hist[p].fetch >= 1 /\ hist[p].embed >= 1 /\ hist[p].saved >= 1

\* The branch is chosen by the existence of the directory alone, and the
\* index is bound in the step that completes the load (from what storage
\* holds, storage untouched) or the save (the dumped index).
C1_Steps ==
    \A p \in Procs :
        /\ (pc[p] = "import" /\ pc'[p] # "import") =>
               /\ path'[p] = IF dir THEN "load" ELSE "build"
               /\ pc'[p] = IF dir THEN "read_faiss" ELSE "fetch"
        /\ (~Initialised(p) /\ Initialised(p)') =>
               IF path[p] = "load"
               THEN /\ vectordb'[p].docstore = pkl_file.data
                    /\ vectordb'[p].vecs = hist[p].faiss_of.vecs
                    /\ UNCHANGED <<dir, faiss_file, pkl_file>>
               ELSE /\ path[p] = "build"
                    /\ pkl_file' = PickleDump(vectordb'[p])
                    /\ vectordb'[p].docstore = documents[p]
                    /\ hist'[p].saved = 1

\* C1: load_or_create_vectordb decides on the existence of PERSIST_DIR
\* alone.  If it exists the index is loaded from it, with no catalog fetch,
\* no embedding of documents and no write to storage; if not, the catalog
\* is fetched, every entry mapped to a Document, the index built and saved,
\* and only then is the index bound and ready to serve.
C1_LoadOrBuild == [](C1_LoadBranch /\ C1_BuildBranch) /\ [][C1_Steps]_vars

\* One process is ready by the build branch and another by the load branch.
C1_Witness ==
    \E p, q \in Procs :
        /\ pc[p] = "ready" /\ path[p] = "build" /\ hist[p].saved = 1
        /\ pc[q] = "ready" /\ path[q] = "load" /\ hist[q].read = 2

(***************************************************************************)
(* Search results.                                                         *)
(***************************************************************************)
\* The positions of the documents of db with content c
DocsWithContent(db, c) ==
    {i \in 1..Len(db.docstore) : db.docstore[i].page_content = c}

\* metadata holds the value of the argument opt under field
Agrees(metadata, field, opt) ==
    field \in DOMAIN metadata /\ metadata[field] = opt[1]

\* Whether an argument counts as a filter: when supplied at all, or only
\* when truthy
CountsInt(supplied, opt) == IF supplied THEN opt # None ELSE TruthyInt(opt)
CountsStr(supplied, opt) == IF supplied THEN opt # None ELSE TruthyStr(opt)

\* Every entry the last search returned agrees with each of vintage, key
\* and api_base_url that counts.
ReturnedAgree(supplied) ==
    (out.proc # "none" /\ out.result.err = "none") =>
        \A n \in 1..Len(out.result.val) :
            \A i \in DocsWithContent(out.db, out.result.val[n]) :
                LET metadata == out.db.docstore[i].metadata IN
                /\ CountsInt(supplied, out.vintage) =>
                       Agrees(metadata, "c_vintage", out.vintage)
                /\ CountsStr(supplied, out.key) => Agrees(metadata, "key", out.key)
                /\ CountsStr(supplied, out.api_base_url) =>
                       Agrees(metadata, "apiBaseURL", out.api_base_url)

\* C2 as stated: no returned entry disagrees with any supplied filter
\* argument.
C2_AgreesWithSupplied == ReturnedAgree(TRUE)

\* C2: for every combination of vintage, key and api_base_url, no entry
\* search_census_datasets returns has metadata that disagrees with a
\* supplied argument that is truthy (a vintage other than 0, a non-empty key
\* or api_base_url); with vintage=2020 only entries of vintage 2020 are
\* returned, also when an entry of 2021 is nearer to the query.
C2_AgreesWithTruthy == ReturnedAgree(FALSE)

\* The distance of the i-th vector of the searched index to the query
OutDistance(i) == L2sqr(out.db.vecs[i], embed_query(out.query))

\* A search with vintage=2020 returned an entry although the index holds an
\* entry of 2021 nearer to the query.
C2_Witness ==
    /\ out.proc # "none"
    /\ out.vintage = Some(2020)
    /\ out.result.err = "none"
    /\ Len(out.result.val) > 0
    /\ \E i \in 1..Len(out.db.docstore) :
         /\ Agrees(out.db.docstore[i].metadata, "c_vintage", Some(2021))
         /\ \A j \in DocsWithContent(out.db, out.result.val[1]) :
                OutDistance(i) < OutDistance(j)

Min(a, b) == IF a < b THEN a ELSE b

\* The number of indexed documents that match the filter of the call
MatchCount(db, cond) ==
    Cardinality({i \in 1..Len(db.docstore) :
                    FilterMatches(cond, db.docstore[i].metadata)})

\* C3: search_census_datasets returns exactly
\* min(k, number of indexed documents matching the filter) content strings,
\* without error.
C3_ExactlyMinKMatching ==
    out.proc # "none" =>
        /\ out.result.err = "none"
        /\ Len(out.result.val) =
             Min(out.k, MatchCount(out.db,
                     MetadataFilter(out.vintage, out.key, out.api_base_url)))

\* Documents with contents c1 and c2 stand in the order of a result: the
\* first nearer to the query, or as near and inserted earlier
InOrder(c1, c2) ==
    \E i \in DocsWithContent(out.db, c1), j \in DocsWithContent(out.db, c2) :
        /\ i # j
        /\ \/ OutDistance(i) < OutDistance(j)
           \/ OutDistance(i) = OutDistance(j) /\ i < j

C4_EmptyCatalogEmptyResult ==
    (/\ vout.proc # "none"
     /\ vout.status_ok
     /\ TruthyStr(vout.query)
     /\ vout.variables = <<>>) =>
        /\ vout.result.err = "none"
        /\ vout.result.val.variables = <<>>

\* C5: every variable name in the result of fetch_dataset_variables is a
\* key of the fetched catalog and maps to the same definition; the result
\* has the catalog's shape {"variables": {name: definition}}, each name once.
C5_SubMapping ==
    (vout.proc # "none" /\ vout.result.err = "none") =>
        LET result == vout.result.val IN
        /\ DOMAIN result = {"variables"}
        /\ Cardinality(DictKeys(result.variables)) = Len(result.variables)
        /\ \A name \in DictKeys(result.variables) :
             /\ name \in DictKeys(vout.variables)
             /\ DictGet(result.variables, name) = DictGet(vout.variables, name)

\* A query returned top_k variables of a larger catalog.
C5_Witness ==
    /\ vout.proc # "none"
    /\ TruthyStr(vout.query)
    /\ vout.result.err = "none"
    /\ Len(vout.result.val.variables) = DefaultTopK
    /\ Len(vout.variables) > DefaultTopK

\* C16: with a non-empty query fetch_dataset_variables returns
\* {"variables": m}, m holding exactly min(10, number of variables of the
\* fetched catalog) entries; without a query (absent or empty) it returns
\* the upstream response unchanged, with all variables.
C16_TenOrAll ==
    (vout # NoCall /\ vout.status_ok) =>
        /\ vout.result.err = "none"
        /\ IF TruthyStr(vout.query)
           THEN /\ DOMAIN vout.result.val = {"variables"}
                /\ Len(vout.result.val.variables) =
                       Min(DefaultTopK, Len(vout.variables))
           ELSE vout.result.val = [variables |-> vout.variables]

(***************************************************************************)
(* Ingestion.                                                              *)
(***************************************************************************)
\* The placeholders the content of doc must hold for what descriptor d lacks
Placeholders(d, doc) ==
    /\ "c_vintage" \notin DOMAIN d => doc.page_content.Vintage = "Unknown Vintage"
    /\ "title" \notin DOMAIN d => doc.page_content.Title = "No Title"
    /\ "description" \notin DOMAIN d =>
           doc.page_content.Description = "No Description"
    /\ Len(Get(d, "distribution", <<>>)) = 0 =>
           doc.page_content.APIbaseURL = "No API Base URL"

\* C6: ingestion never aborts on a partial descriptor: once the catalog was
\* fetched, there is one Document per descriptor, with a placeholder for
\* each of vintage, title, description and distribution that is missing.
C6_OneDocumentPerDescriptor ==
    \A p \in Procs :
        (hist[p].fetch = 1 /\ hist[p].embed = 0 /\ err[p] # "HTTPStatusError") =>
            /\ pc[p] = "create"
            /\ Len(documents[p]) = Len(upstream)
            /\ \A i \in 1..Len(upstream) : Placeholders(upstream[i], documents[p][i])

(***************************************************************************)
(* The life of the persistent index.                                       *)
(***************************************************************************)
\* C7: no process that loads durable storage observes a partially rebuilt
\* index: the two files it loaded were written by the save of one index.
C7_NoMixedIndexLoaded ==
    \A p \in Procs :
        (Initialised(p) /\ path[p] = "load") => hist[p].faiss_of = hist[p].pkl_of

\* In every process load_or_create_vectordb has run at most once; a ready
\* server searches the index that run returned.
C8_OneIndex ==
    \A p \in Procs :
        /\ hist[p].load_or_create <= 1
        /\ pc[p] = "ready" =>
               hist[p].load_or_create = 1 /\ SearchIndex(p) = vectordb[p]
        /\ out.proc = p =>
               /\ pc[p] = "ready"
               /\ out.db = vectordb[p]
               /\ out.result = search_census_datasets(vectordb[p], out.query,
                                    out.k, out.vintage, out.key, out.api_base_url)

\* While a server is ready its index does not change and the step is not
\* run again, whatever happens to storage.
C8_Retained ==
    \A p \in Procs :
        (pc[p] = "ready" /\ pc'[p] = "ready") =>
            /\ vectordb'[p] = vectordb[p]
            /\ default_vectordb'[p] = default_vectordb[p]
            /\ hist'[p].load_or_create = hist[p].load_or_create

\* C8: within one process load_or_create_vectordb runs at most once; its
\* result is kept as the process-wide index, and every search that does not
\* pass its own index uses it: there is no refresh, also after durable
\* storage is overwritten.
C8_LoadedOnce == []C8_OneIndex /\ [][C8_Retained]_vars

\* A search was answered from the index of the process although storage,
\* fully written, holds another index by now.
C8_Witness ==
    /\ out.proc # "none"
    /\ Len(out.result.val) > 0
    /\ faiss_file.state = "written"
    /\ pkl_file.state = "written"
    /\ faiss_file.of = pkl_file.of
    /\ pkl_file.data # out.db.docstore
    /\ faiss_file.data # out.db.vecs

\* The fetches a process may have made: one per ingestion it began.
C9_SingleAttempt ==
    \A p \in Procs :
        /\ hist[p].fetch <= (IF phase[p] = "init" THEN 1 ELSE 2)
        /\ (pc[p] = "failed" /\ err[p] = "HTTPStatusError") =>
               IF phase[p] = "init"
               THEN /\ path[p] = "build"
                    /\ hist[p].fetch = 1
                    /\ hist[p].embed = 0
                    /\ hist[p].write = 0
                    /\ hist[p].saved = 0
               ELSE /\ hist[p].fetch = (IF path[p] = "build" THEN 2 ELSE 1)
                    /\ hist[p].embed = (IF path[p] = "build" THEN 1 ELSE 0)
                    /\ hist[p].saved = (IF path[p] = "build" THEN 1 ELSE 0)

\* The step in which a fetch fails ends the process with the error, leaves
\* no documents and no index, and leaves storage as it was.
C9_FailedFetchStep ==
    \A p \in Procs :
        (pc[p] = "fetch" /\ pc'[p] = "failed") =>
            /\ err'[p] \in {"HTTPStatusError", "IndexError"}
            /\ hist'[p] = [hist[p] EXCEPT !.fetch = @ + 1]
            /\ documents'[p] = <<>>
            /\ local_db'[p] = NoDb
            /\ UNCHANGED <<dir, faiss_file, pkl_file>>

\* C9: if the catalog fetch fails, ingestion fails as a whole: the error
\* ends the process after a single attempt, no Document is produced, no
\* index is built, and storage is left exactly as it was.
C9_FetchFailure == []C9_SingleAttempt /\ [][C9_FailedFetchStep]_vars

\* A rebuild failed in its fetch and storage still holds the whole index
\* saved before.
C9_Witness ==
    \E p \in Procs :
        /\ pc[p] = "failed"
        /\ err[p] = "HTTPStatusError"
        /\ phase[p] = "rebuild"
        /\ faiss_file.state = "written"
        /\ pkl_file.state = "written"
        /\ faiss_file.of = pkl_file.of

CountedInt(opt) == IF opt # None /\ opt[1] # 0 THEN opt ELSE None
CountedStr(opt) == IF opt # None /\ opt[1] # "" THEN opt ELSE None

\* The document at position i holds every argument that counts
HoldsCounted(db, i, vintage, key, api_base_url) ==
    LET metadata == db.docstore[i].metadata IN
    /\ CountedInt(vintage) # None => Agrees(metadata, "c_vintage", vintage)
    /\ CountedStr(key) # None => Agrees(metadata, "key", key)
    /\ CountedStr(api_base_url) # None =>
           Agrees(metadata, "apiBaseURL", api_base_url)

\* What a search is to return: of the fetch_k nearest documents those that
\* hold every argument that counts, nearest first, at most k
ExpectedContents(db, query, k, vintage, key, api_base_url) ==
    LET labels == Nearest(db.vecs, embed_query(query), FetchK, {})
        kept == SelectSeq(labels,
                    LAMBDA i : HoldsCounted(db, i, vintage, key, api_base_url))
    IN Prefix([n \in 1..Len(kept) |-> db.docstore[kept[n]].page_content], k)

\* The vintage a year string stands for
YearVintage(year) ==
    CASE year = Some("2020") -> Some(2020)
      [] year = Some(" 2020") -> Some(2020)
      [] year = Some("2021") -> Some(2021)
      [] OTHER -> None

\* C18: a filter argument of search_census_datasets constrains the result
\* if and only if it is truthy: absent, 0 and "" add no constraint; truthy
\* values are matched against c_vintage, key and apiBaseURL.  fetch_datasets
\* passes int(year) for a non-empty year and no vintage otherwise.
C18_TruthyFilters ==
    out # NoCall =>
        IF "year" \in DOMAIN out
        THEN IF out.year = Some("twenty")
             THEN out.result.err = "ValueError"
             ELSE out.result =
                      Ok(ExpectedContents(out.db, out.query, DefaultK,
                             YearVintage(out.year), out.key, out.api_base_url))
        ELSE /\ out.result =
                    Ok(ExpectedContents(out.db, out.query, out.k, out.vintage,
                                        out.key, out.api_base_url))
             /\ out.result =
                    search_census_datasets(out.db, out.query, out.k,
                        CountedInt(out.vintage), CountedStr(out.key),
                        CountedStr(out.api_base_url))

\* A search with vintage 0 and key "" returned an entry of vintage 2020
\* and key dec/pl.
C18_Witness ==
    /\ out # NoCall
    /\ "year" \notin DOMAIN out
    /\ out.vintage = Some(0)
    /\ out.key = Some("")
    /\ out.result.err = "none"
    /\ \E n \in 1..Len(out.result.val) :
         \E i \in DocsWithContent(out.db, out.result.val[n]) :
             /\ Agrees(out.db.docstore[i].metadata, "c_vintage", Some(2020))
             /\ Agrees(out.db.docstore[i].metadata, "key", Some("dec/pl"))

(***************************************************************************)
(* Repeated searches.                                                      *)
(***************************************************************************)
\* The call just answered has the arguments of the kept one and was
\* answered by the same process with its process-wide index unchanged
SameCallSameIndex ==
    /\ out # NoCall
    /\ seen # NoCall
    /\ out.proc = seen.proc
    /\ out.query = seen.query
    /\ out.k = seen.k
    /\ out.vintage = seen.vintage
    /\ out.key = seen.key
    /\ out.api_base_url = seen.api_base_url
    /\ vectordb[out.proc] = seen.db

DatasetIndex(db) ==
    \A i \in 1..Len(db.docstore) : "Title" \in DOMAIN db.docstore[i].page_content

\* No index of variables is kept by a process or held by storage.
C15_NoVariableIndexKept ==
    /\ \A p \in Procs : /\ DatasetIndex(vectordb[p])
                        /\ DatasetIndex(default_vectordb[p])
                        /\ DatasetIndex(local_db[p])
    /\ faiss_file.state = "written" => DatasetIndex(faiss_file.of)
    /\ pkl_file.state = "written" =>
           \A i \in 1..Len(pkl_file.data) :
               "Title" \in DOMAIN pkl_file.data[i].page_content

\* A step that answers a request leaves storage and every process's
\* index as they were.
C15_RequestStep ==
    (out' # NoCall \/ vout' # NoCall) =>
        UNCHANGED <<dir, faiss_file, pkl_file, vectordb, default_vectordb,
                    local_db, documents, hist, pc>>

\* A step that changes storage is a step of a save: of the build of a
\* process that found no storage, or of the script's rebuild.
C15_WriteStep ==
    (<<dir, faiss_file, pkl_file>>' # <<dir, faiss_file, pkl_file>>) =>
        \E p \in Procs :
            /\ pc[p] \in {"mkdir", "open_faiss", "write_faiss", "open_pkl",
                          "dump_pkl"}
            /\ pc'[p] # pc[p]
            /\ \/ phase[p] = "init" /\ path[p] = "build"
               \/ phase[p] = "rebuild" /\ kind[p] = "script"

\* C15: serving requests is read-only for the persistent index: no
\* search_census_datasets or fetch_dataset_variables call changes the
\* process-wide index or writes storage; the index built for a variable
\* search is never saved nor kept; only the initial build and the rebuild
\* write storage.
C15_ReadOnlyServing ==
    []C15_NoVariableIndexKept /\ [][C15_RequestStep /\ C15_WriteStep]_vars

\* A variable search with a query was answered by a server whose index is
\* the one storage holds.
C15_Witness ==
    /\ vout # NoCall
    /\ TruthyStr(vout.query)
    /\ vout.result.err = "none"
    /\ Len(vout.result.val.variables) = 3
    /\ StorageSound
    /\ pkl_file.data = vectordb[vout.proc].docstore
    /\ faiss_file.data = vectordb[vout.proc].vecs

(***************************************************************************)
(* Place-name lookup.                                                      *)
(***************************************************************************)
\* The rows below the header of the table just looked up whose first
\* column is exactly the name asked for
RowsNamed ==
    {i \in 2..Len(fout.body) : fout.body[i][1] = fout.name}

\* C13: lookup_dataset_fips matches the name exactly against the first
\* (NAME) column of the fetched rows: when a row has exactly that name the
\* result is the remaining columns of such a row keyed by header name, and
\* when none has, the call raises (KeyError) instead of returning a near
\* match or an empty value.
C13_ExactNameLookup ==
    (fout.proc # "none" /\ fout.status_ok /\ fout.body # <<>>) =>
        IF RowsNamed = {}
        THEN fout.result.err = "KeyError"
        ELSE /\ fout.result.err = "none"
             /\ \E i \in RowsNamed :
                  LET header == fout.body[1]
                      row == fout.body[i]
                  IN /\ DictKeys(fout.result.val) =
                          {header[c] : c \in 2..Len(header)}
                     /\ Len(fout.result.val) = Len(header) - 1
                     /\ \A c \in 2..Len(header) :
                          DictGet(fout.result.val, header[c]) = row[c]

\* A name was asked for that no row has, while the table holds a longer
\* name that begins with it: the call raised.
C13_Witness ==
    /\ fout.proc # "none"
    /\ fout.status_ok
    /\ fout.name = "Los Angeles"
    /\ Len(fout.body) = 3
    /\ fout.body[2][1] = "Los Angeles County, California"
    /\ fout.body[3][1] = "Los Angeles County"
    /\ fout.result.err = "KeyError"

(***************************************************************************)
(* Durable storage in any condition.                                       *)
(***************************************************************************)
\* C11: when PERSIST_DIR exists but what it holds is not a whole index (an
\* empty directory, a missing, partly written or damaged file, files of
\* two different saves), initialization ends in a fatal error: the index is
\* never bound, nothing is fetched or built, and storage is not written.
C11_CorruptStorageIsFatal ==
    \A p \in Procs :
        (path[p] = "load" /\ phase[p] = "init" /\ ~StorageSound) =>
            /\ pc[p] \in {"read_faiss", "read_pkl", "failed"}
            /\ hist[p].fetch = 0
            /\ hist[p].embed = 0
            /\ hist[p].write = 0

\* PERSIST_DIR exists and load_local cannot read what it holds
Unreadable ==
    dir /\ (faiss_file.state # "written" \/ pkl_file.state # "written")

\* What the script has done by each point of its run: the rebuild starts
\* only after load_or_create_vectordb returned; a completed run that found
\* no storage has fetched, built and saved twice; a run that found
\* unreadable storage gets no further than the load.
C17_ScriptCounts ==
    \A p \in Procs :
        kind[p] = "script" =>
            /\ phase[p] = "rebuild" =>
                   /\ hist[p].load_or_create = 1
                   /\ path[p] = "load" => hist[p].read = 2 /\ hist[p].fetch <= 1
                   /\ path[p] = "build" => hist[p].saved >= 1 /\ hist[p].fetch >= 1
            /\ pc[p] = "exited" =>
                   /\ phase[p] = "rebuild"
                   /\ IF path[p] = "build"
                      THEN /\ hist[p].fetch = 2 /\ hist[p].embed = 2
                           /\ hist[p].saved = 2 /\ hist[p].write = 4
                           /\ hist[p].read = 0
                      ELSE /\ path[p] = "load"
                           /\ hist[p].fetch = 1 /\ hist[p].embed = 1
                           /\ hist[p].saved = 1 /\ hist[p].write = 2
                           /\ hist[p].read = 2
            /\ (path[p] = "load" /\ phase[p] = "init" /\ Unreadable) =>
                   /\ pc[p] \in {"read_faiss", "read_pkl", "failed"}
                   /\ hist[p].fetch = 0
                   /\ hist[p].embed = 0
                   /\ hist[p].write = 0

\* The script's load leaves storage as it is, and ends the run in the step
\* that meets a file it cannot read.
C17_LoadStep ==
    \A p \in Procs :
        (kind[p] = "script" /\ path[p] = "load" /\ phase[p] = "init") =>
            /\ UNCHANGED <<dir, faiss_file, pkl_file>>
            /\ (pc[p] = "read_faiss" /\ pc'[p] # "read_faiss"
                   /\ faiss_file.state # "written") => pc'[p] = "failed"
            /\ (pc[p] = "read_pkl" /\ pc'[p] # "read_pkl"
                   /\ pkl_file.state # "written") => pc'[p] = "failed"

\* C17: the module run as a script performs the module-level
\* load-or-build first and the rebuild second.  With storage absent one
\* run fetches the catalog twice, builds twice and saves twice; with
\* storage present but unreadable the run fails in the load, before any
\* fetch, and never overwrites that storage.
C17_LoadThenRebuild == []C17_ScriptCounts /\ [][C17_LoadStep]_vars

\* A script run that found no storage has ended, after two fetches and
\* two saves.
C17_Witness ==
    \E p \in Procs :
        /\ kind[p] = "script"
        /\ pc[p] = "exited"
        /\ path[p] = "build"
        /\ hist[p].fetch = 2
        /\ hist[p].saved = 2

====
